---- MODULE Spec2Model ----
(***************************************************************************)
(* Model of packages/ra-data-json-server/src/index.ts: the OData flavoured *)
(* react-admin data provider.  JavaScript values are tagged records, text  *)
(* is a sequence of one-character strings, the caller's params object is   *)
(* one variable that the handlers mutate in place, and the transport       *)
(* (httpClient) is the environment: it settles each pending request.       *)
(***************************************************************************)
EXTENDS Integers, Sequences, FiniteSets, TLC

\* longest ids array a caller passes
MaxIds == 2

(***************************************************************************)
(* JavaScript values                                                       *)
(***************************************************************************)
Undefined == [k |-> "undef"]
Num(n) == [k |-> "num", n |-> n]
Str(s) == [k |-> "str", s |-> s]
Obj(o) == [k |-> "obj", o |-> o]
Arr(a) == [k |-> "arr", a |-> a]

EmptyObj == Obj([q \in {} |-> Undefined])

\* obj[key]: reading a property the object does not own gives undefined
Get(obj, key) == IF key \in DOMAIN obj.o THEN obj.o[key] ELSE Undefined

\* obj[key] = v
Put(obj, key, v) ==
    Obj([q \in (DOMAIN obj.o) \cup {key} |-> IF q = key THEN v ELSE obj.o[q]])

\* delete obj[key]
Delete(obj, key) == Obj([q \in (DOMAIN obj.o) \ {key} |-> obj.o[q]])

\* a completion of a synchronous computation: a value, or a thrown TypeError
Return(v) == [ok |-> TRUE, v |-> v]
Error(name) == [k |-> "error", name |-> name]
Throw(e) == [ok |-> FALSE, v |-> Error(e)]

(***************************************************************************)
(* Text                                                                    *)
(***************************************************************************)
Digits == <<"0", "1", "2", "3", "4", "5", "6", "7", "8", "9">>

IsDigit(c) == \E i \in 1..10 : Digits[i] = c

\* UTF-16 code unit of a character (the order Array.prototype.sort compares by)
Code(c) ==
    CASE c = "0" -> 48 [] c = "1" -> 49 [] c = "2" -> 50 [] c = "3" -> 51
      [] c = "4" -> 52 [] c = "5" -> 53 [] c = "6" -> 54 [] c = "7" -> 55
      [] c = "8" -> 56 [] c = "9" -> 57
      [] c = "a" -> 97 [] c = "b" -> 98 [] c = "c" -> 99
      [] c = "d" -> 100 [] c = "e" -> 101 [] c = "f" -> 102
      [] c = "i" -> 105 [] c = "n" -> 110 [] c = "o" -> 111
      [] c = "r" -> 114 [] c = "s" -> 115 [] c = "t" -> 116
      [] c = "u" -> 117 [] c = "_" -> 95

RECURSIVE NumberToString(_)
\* Number::toString of a non-negative integer
NumberToString(n) ==
    IF n < 10 THEN <<Digits[n + 1]>>
    ELSE NumberToString(n \div 10) \o <<Digits[(n % 10) + 1]>>

\* ToString of a primitive, as a template literal or join applies it
JsToString(v) ==
    CASE v.k = "num" -> NumberToString(v.n)
      [] v.k = "str" -> v.s
      [] OTHER -> <<"u", "n", "d", "e", "f", "i", "n", "e", "d">>

\* isNaN(val): ToNumber of a string over digits and letters is a number
\* exactly when every character is a digit (the empty string is 0)
IsNaN(val) ==
    CASE val.k = "num" -> FALSE
      [] val.k = "str" -> \E i \in 1..Len(val.s) : ~IsDigit(val.s[i])
      [] OTHER -> TRUE

RECURSIVE LexLess(_, _)
\* s < t on strings: code unit by code unit, a proper prefix is smaller
LexLess(s, t) ==
    IF t = <<>> THEN FALSE
    ELSE IF s = <<>> THEN TRUE
    ELSE IF Code(Head(s)) # Code(Head(t)) THEN Code(Head(s)) < Code(Head(t))
    ELSE LexLess(Tail(s), Tail(t))

\* the default comparison of Array.prototype.sort: undefined last, the rest
\* by their string conversions
SortBefore(x, y) ==
    IF x.k = "undef" THEN FALSE
    ELSE IF y.k = "undef" THEN TRUE
    ELSE LexLess(JsToString(x), JsToString(y))

RECURSIVE Insert(_, _)
Insert(x, a) ==
    IF a = <<>> THEN <<x>>
    ELSE IF SortBefore(x, Head(a)) THEN <<x>> \o a
    ELSE <<Head(a)>> \o Insert(x, Tail(a))

RECURSIVE SortFrom(_, _)
SortFrom(a, i) ==
    IF i = 0 THEN <<>> ELSE Insert(a[i], SortFrom(a, i - 1))

\* value.sort(): stable, by the default comparison
ArraySort(a) == SortFrom(a, Len(a))

RECURSIVE Join(_, _)
\* parts.join(sep)
Join(parts, sep) ==
    IF parts = <<>> THEN <<>>
    ELSE IF Len(parts) = 1 THEN parts[1]
    ELSE parts[1] \o sep \o Join(Tail(parts), sep)

(***************************************************************************)
(* Helpers of index.ts                                                     *)
(***************************************************************************)
\* "use strict" semantics apply: index.ts is an ES module (import/export),
\* and module code is always strict.  json.id = json.Id
\*   - on undefined: reading json.Id throws a TypeError;
\*   - on a number or string: creating a property on a primitive throws a
\*     TypeError in strict code;
\*   - on an object: the property id is created or overwritten.
idFuncSingleNoCopy(json) ==
    CASE json.k = "obj" -> Return(json)
      [] json.k = "arr" -> Return(json)
      [] OTHER -> Throw("TypeError")

idFuncSingle(json) ==
    CASE json.k = "obj" -> Return(Put(json, "id", Get(json, "Id")))
      [] json.k = "arr" -> Return(json)
      [] OTHER -> Throw("TypeError")

idFuncTolerant(json) ==
    IF json.k = "arr"
    THEN IF \E i \in 1..Len(json.a) : ~idFuncSingle(json.a[i]).ok
         THEN Throw("TypeError")
         ELSE Return(Arr([i \in 1..Len(json.a) |-> idFuncSingle(json.a[i]).v]))
    ELSE IF json.k = "undef" THEN Return(Undefined) ELSE idFuncSingle(json)

\* json.map(item => idFuncSingle(item)) on an array, idFuncSingle otherwise
idFunc(json) ==
    IF json.k = "arr"
    THEN IF \E i \in 1..Len(json.a) : ~idFuncSingle(json.a[i]).ok
         THEN Throw("TypeError")
         ELSE Return(Arr([i \in 1..Len(json.a) |-> idFuncSingle(json.a[i]).v]))
    ELSE idFuncSingle(json)

FilterValueUnsorted(value) ==
    IF value.k # "arr" THEN <<value>> ELSE value.a

\* lines 52-54: the value of one filter entry as the array that is rendered;
\* an array is sorted (in place) with the default comparison
FilterValue(value) ==
    IF value.k # "arr" THEN <<value>> ELSE ArraySort(value.a)

RenderValueQuoteAll(val) == <<"'">> \o JsToString(val) \o <<"'">>

\* val => (isNaN(val) ? `'${val}'` : val), then converted by join
RenderValue(val) ==
    IF IsNaN(val) THEN <<"'">> \o JsToString(val) \o <<"'">> ELSE JsToString(val)

\* `${filterKey} in (${value.map(...).join(', ')})`
FilterClause(filterKey, value) ==
    filterKey \o <<" ", "i", "n", " ", "(">>
        \o Join([i \in 1..Len(value) |-> RenderValue(value[i])], <<",", " ">>)
        \o <<")">>

RECURSIVE FilterLoop(_, _)
\* the for..in loop over the entries of filterObj, in property order
FilterLoop(entries, filterString) ==
    IF entries = <<>> THEN filterString
    ELSE LET e == Head(entries)
             sep == IF filterString # <<>>
                    THEN filterString \o <<" ", "o", "r", " ">>
                    ELSE filterString
         IN FilterLoop(Tail(entries),
                       sep \o FilterClause(e.key, FilterValue(e.value)))

\* filterObj is the sequence of its [key, value] entries
getOdataFilter(filterObj) ==
    <<"$", "f", "i", "l", "t", "e", "r", "=">> \o FilterLoop(filterObj, <<>>)

\* what value.sort() leaves in the caller's array: filterObj[filterKey] is the
\* very array the caller passed, sorted in place
SortedInPlace(value) ==
    IF value.k = "arr" THEN Arr(FilterValue(value)) ELSE value

\* JSON.stringify(obj): the members whose value is undefined are left out
JSONstringify(obj) ==
    Obj([q \in {r \in DOMAIN obj.o : obj.o[r].k # "undef"} |-> obj.o[q]])

\* stringify(query) of query-string: key=value pairs joined by &, the keys in
\* ascending order; query is the sequence of its [key, value] entries
stringify(query) ==
    LET keyOf(e) == Str(e.key)
        RECURSIVE Ins(_, _)
        Ins(e, a) ==
            IF a = <<>> THEN <<e>>
            ELSE IF SortBefore(keyOf(e), keyOf(Head(a))) THEN <<e>> \o a
            ELSE <<Head(a)>> \o Ins(e, Tail(a))
        RECURSIVE Srt(_)
        Srt(i) == IF i = 0 THEN <<>> ELSE Ins(query[i], Srt(i - 1))
        sorted == Srt(Len(query))
    IN Join([i \in 1..Len(sorted) |->
                sorted[i].key \o <<"=">> \o JsToString(sorted[i].value)],
            <<"&">>)

(***************************************************************************)
(* Inputs: the provider's configuration, the params objects a caller       *)
(* passes, and what the transport answers                                  *)
(***************************************************************************)
apiUrl == <<"u">>
resource == <<"r">>

abc == <<"a", "b", "c">>

\* ids: numbers, a string that is no number, a string that is one
IdVals == {Num(5), Num(10), Str(abc), Str(<<"5">>)}

IdSeqs == UNION {[1..n -> IdVals] : n \in 0..MaxIds}

DataSet ==
    { Obj([q \in {"title"} |-> Str(abc)]),
      Obj([q \in {"title", "id"} |-> IF q = "id" THEN Num(5) ELSE Str(abc)]),
      Obj([q \in {"title", "id", "Id"} |-> IF q = "title" THEN Str(abc) ELSE Num(5)]) }

MkParams(id, ids, data) ==
    Obj([q \in {"id", "ids", "data", "target", "pagination", "sort"} |->
            CASE q = "id" -> id
              [] q = "ids" -> Arr(ids)
              [] q = "data" -> data
              [] q = "target" -> Str(<<"a">>)
              [] q = "pagination" ->
                    Obj([r \in {"page", "perPage"} |->
                            IF r = "page" THEN Num(2) ELSE Num(10)])
              [] q = "sort" ->
                    Obj([r \in {"field", "order"} |->
                            IF r = "field" THEN Str(<<"t">>) ELSE Str(<<"a", "s", "c">>)])])

\* every ids array with one id and one data, every id and data with one array
ParamsSet ==
    { MkParams(Num(5), ids, CHOOSE d \in DataSet : DOMAIN d.o = {"title", "id"}) :
        ids \in IdSeqs }
    \cup { MkParams(id, <<Num(10), Num(5)>>, data) :
              id \in {Num(5), Str(abc)}, data \in DataSet }

\* backend records: one with Id (and a stale id of its own), one without Id
RecWithId ==
    Obj([q \in {"Id", "id", "title"} |->
            CASE q = "Id" -> Num(7) [] q = "id" -> Num(9) [] OTHER -> Str(abc)])
RecNoId == Obj([q \in {"title"} |-> Str(abc)])
Envelope == Obj([q \in {"value"} |-> Arr(<<RecWithId, RecNoId>>)])

JsonSet == {RecWithId, RecNoId, Envelope}

\* the failures the transport rejects with
Errors == {"HttpError", "NetworkError"}

(***************************************************************************)
(* State                                                                   *)
(***************************************************************************)
VARIABLES
    params,   \* the caller's params object, as the handlers have left it
    orig,     \* the values the caller put into that object
    op,       \* the handler of the current call
    reqs,     \* the requests the current call handed to httpClient
    outcome   \* the promise the current call returned

vars == <<params, orig, op, reqs, outcome>>

Request(method, url, body) ==
    [method |-> method, url |-> url, body |-> body,
     status |-> "pending", json |-> Undefined, err |-> ""]

Pending == [state |-> "pending", value |-> Undefined]

Settled(completion) ==
    [state |-> IF completion.ok THEN "resolved" ELSE "rejected",
     value |-> completion.v]

\* `${apiUrl}/${resource}`
Collection == apiUrl \o <<"/">> \o resource
\* `${apiUrl}/${resource}/${id}`
Member(id) == Collection \o <<"/">> \o JsToString(id)
\* `${apiUrl}/${resource}?${query}`
Search(query) == Collection \o <<"?">> \o query

(***************************************************************************)
(* The handlers: the requests each one builds                              *)
(***************************************************************************)
getListRequests(p) ==
    LET page == Get(Get(p, "pagination"), "page").n
        perPage == Get(Get(p, "pagination"), "perPage").n
        query == << [key |-> <<"_", "s", "o", "r", "t">>,
                     value |-> Get(Get(p, "sort"), "field")],
                    [key |-> <<"_", "o", "r", "d", "e", "r">>,
                     value |-> Get(Get(p, "sort"), "order")],
                    [key |-> <<"_", "s", "t", "a", "r", "t">>,
                     value |-> Num((page - 1) * perPage)],
                    [key |-> <<"_", "e", "n", "d">>,
                     value |-> Num(page * perPage)] >>
    IN << Request("GET", Search(stringify(query)), Undefined) >>

getOneRequests(p) == << Request("GET", Member(Get(p, "id")), Undefined) >>

getManyRequests(p) ==
    LET filterObj == << [key |-> <<"I", "d">>, value |-> Get(p, "ids")] >>
    IN << Request("GET", Search(getOdataFilter(filterObj)), Undefined) >>

getManyReferenceRequests(p) ==
    LET filterObj == << [key |-> Get(p, "target").s, value |-> Get(p, "id")] >>
    IN << Request("GET", Search(getOdataFilter(filterObj)), Undefined) >>

updateEnteredKeepId(p) == p

\* delete params.data.id
updateEntered(p) == Put(p, "data", Delete(Get(p, "data"), "id"))

updateRequests(p) ==
    << Request("PUT", Member(Get(p, "id")),
               JSONstringify(Get(updateEntered(p), "data"))) >>

FanOutOneAtATime(method, ids, body) ==
    [i \in 1..(IF ids = <<>> THEN 0 ELSE 1) |-> Request(method, Member(ids[i]), body)]

\* params.ids.map(id => httpClient(...)): one request per element, in order,
\* all of them handed to the transport before the handler returns
FanOut(method, ids, body) ==
    [i \in 1..Len(ids) |-> Request(method, Member(ids[i]), body)]

updateManyRequests(p) ==
    FanOut("PUT", Get(p, "ids").a, JSONstringify(Get(p, "data")))

createRequests(p) ==
    << Request("POST", Collection, JSONstringify(Get(p, "data"))) >>

deleteRequests(p) == << Request("DELETE", Member(Get(p, "id")), Undefined) >>

deleteManyRequests(p) == FanOut("DELETE", Get(p, "ids").a, Undefined)

(***************************************************************************)
(* The handlers: the .then callbacks.  Each returns the completion of the  *)
(* callback and the caller's params object as the callback leaves it.      *)
(***************************************************************************)
Result(data) == Obj([q \in {"data"} |-> data])
ResultTotal(data, total) ==
    Obj([q \in {"data", "total"} |-> IF q = "data" THEN data ELSE total])

\* value.length
Length(value) == IF value.k = "arr" THEN Num(Len(value.a)) ELSE Undefined

\* ({ headers, json }) => { const { value } = json;
\*     return { data: idFunc(value), total: value.length } }
getListThen(p, rs) ==
    LET value == Get(rs[1].json, "value")
        r == idFunc(value)
    IN [res |-> IF r.ok THEN Return(ResultTotal(r.v, Length(value))) ELSE r,
        params |-> p]

\* ({ json }) => ({ data: idFunc(json) })
getOneThen(p, rs) ==
    LET r == idFunc(rs[1].json)
    IN [res |-> IF r.ok THEN Return(Result(r.v)) ELSE r, params |-> p]

\* ({ json }) => ({ data: idFunc(json.value) })
getManyThen(p, rs) ==
    LET r == idFunc(Get(rs[1].json, "value"))
    IN [res |-> IF r.ok THEN Return(Result(r.v)) ELSE r, params |-> p]

\* ({ json }) => ({ data: idFunc(params.data) }): params.data is normalized
\* in place and is the data of the result
updateThen(p, rs) ==
    LET r == idFunc(Get(p, "data"))
    IN [res |-> IF r.ok THEN Return(Result(r.v)) ELSE r,
        params |-> IF r.ok THEN Put(p, "data", r.v) ELSE p]

updateManyThenReversed(p, rs) ==
    [res |-> Return(Result(Arr([i \in 1..Len(rs) |->
                                    Get(rs[Len(rs) + 1 - i].json, "Id")]))),
     params |-> p]

\* responses => ({ data: responses.map(({ json }) => json.Id) })
updateManyThen(p, rs) ==
    [res |-> Return(Result(Arr([i \in 1..Len(rs) |-> Get(rs[i].json, "Id")]))),
     params |-> p]

\* () => ({ data: idFunc(params) }): params itself is normalized in place
deleteThen(p, rs) ==
    LET r == idFunc(p)
    IN [res |-> IF r.ok THEN Return(Result(r.v)) ELSE r,
        params |-> IF r.ok THEN r.v ELSE p]

\* () => ({ data: idFunc(params.ids) })
deleteManyThen(p, rs) ==
    LET r == idFunc(Get(p, "ids"))
    IN [res |-> IF r.ok THEN Return(Result(r.v)) ELSE r, params |-> p]

Then(name, p, rs) ==
    CASE name = "getList" -> getListThen(p, rs)
      [] name = "getOne" -> getOneThen(p, rs)
      [] name = "getMany" -> getManyThen(p, rs)
      [] name = "getManyReference" -> getListThen(p, rs)
      [] name = "update" -> updateThen(p, rs)
      [] name = "updateMany" -> updateManyThen(p, rs)
      [] name = "create" -> getOneThen(p, rs)
      [] name = "delete" -> deleteThen(p, rs)
      [] name = "deleteMany" -> deleteManyThen(p, rs)

(***************************************************************************)
(* Actions                                                                 *)
(***************************************************************************)
Idle == [state |-> "idle", value |-> Undefined]

\* the caller holds a params object; no call has been made
Init ==
    /\ params \in ParamsSet
    /\ orig = params
    /\ op = "none"
    /\ reqs = <<>>
    /\ outcome = Idle

AllFulfilled(rs) == \A i \in 1..Len(rs) : rs[i].status = "fulfilled"

\* a handler is called with the caller's params object and runs to its
\* return: p is params after the synchronous part, rs the requests handed to
\* the transport; Promise.all of no promise is fulfilled at once
Dispatch(name, p, rs) ==
    /\ op = "none"
    /\ UNCHANGED orig
    /\ op' = name
    /\ reqs' = rs
    /\ IF rs = <<>>
       THEN LET t == Then(name, p, rs)
            IN /\ outcome' = Settled(t.res)
               /\ params' = t.params
       ELSE /\ outcome' = Pending
            /\ params' = p

getList == Dispatch("getList", params, getListRequests(params))

getOne == Dispatch("getOne", params, getOneRequests(params))

\* getOdataFilter has sorted params.ids in place
getMany ==
    Dispatch("getMany", Put(params, "ids", SortedInPlace(Get(params, "ids"))),
             getManyRequests(params))

getManyReference ==
    Dispatch("getManyReference", params, getManyReferenceRequests(params))

update == Dispatch("update", updateEntered(params), updateRequests(params))

updateMany == Dispatch("updateMany", params, updateManyRequests(params))

create == Dispatch("create", params, createRequests(params))

delete == Dispatch("delete", params, deleteRequests(params))

deleteMany == Dispatch("deleteMany", params, deleteManyRequests(params))

\* the transport fulfils request i with a parsed body; the reactions run
\* before any other event: Promise.all is fulfilled when every request is,
\* and then the handler's callback runs
Respond(i, json) ==
    /\ reqs[i].status = "pending"
    /\ reqs' = [reqs EXCEPT ![i].status = "fulfilled", ![i].json = json]
    /\ IF outcome.state = "pending" /\ AllFulfilled(reqs')
       THEN LET t == Then(op, params, reqs')
            IN /\ outcome' = Settled(t.res)
               /\ params' = t.params
       ELSE UNCHANGED <<outcome, params>>
    /\ UNCHANGED <<orig, op>>

FailUnnoticed(i, e) ==
    /\ reqs[i].status = "pending"
    /\ reqs' = [reqs EXCEPT ![i].status = "rejected", ![i].err = e]
    /\ UNCHANGED <<params, orig, op, outcome>>

\* the transport rejects request i: the first rejection rejects Promise.all,
\* and with it the promise the handler returned (no callback handles it)
Fail(i, e) ==
    /\ reqs[i].status = "pending"
    /\ reqs' = [reqs EXCEPT ![i].status = "rejected", ![i].err = e]
    /\ outcome' = IF outcome.state = "pending"
                  THEN [state |-> "rejected", value |-> Error(e)]
                  ELSE outcome
    /\ UNCHANGED <<params, orig, op>>

\* the caller has awaited the promise (every request has settled); the next
\* call may pass the same params object again
Await ==
    /\ op # "none"
    /\ outcome.state # "pending"
    /\ \A i \in 1..Len(reqs) : reqs[i].status # "pending"
    /\ op' = "none"
    /\ reqs' = <<>>
    /\ outcome' = Idle
    /\ UNCHANGED <<params, orig>>

\* the caller builds a new params object for the next call
NewParams(q) ==
    /\ op = "none"
    /\ params # q
    /\ params' = q
    /\ orig' = q
    /\ UNCHANGED <<op, reqs, outcome>>

Next ==
    \/ getList
    \/ getOne
    \/ getMany
    \/ getManyReference
    \/ update
    \/ updateMany
    \/ create
    \/ delete
    \/ deleteMany
    \/ \E i \in 1..Len(reqs), json \in JsonSet : Respond(i, json)
    \/ \E i \in 1..Len(reqs), e \in Errors : Fail(i, e)
    \/ Await
    \/ \E q \in ParamsSet : NewParams(q)

Spec == Init /\ [][Next]_vars

(***************************************************************************)
(* Properties                                                              *)
(***************************************************************************)
FanOutOps == {"updateMany", "deleteMany"}
ListOps == {"getList", "getMany", "getManyReference"}

\* what a request says on the wire
Wire(r) == [method |-> r.method, url |-> r.url, body |-> r.body]

Rejected(rs) == {i \in 1..Len(rs) : rs[i].status = "rejected"}
StillPending(rs) == {i \in 1..Len(rs) : rs[i].status = "pending"}

\* the ids array of the call (no fan-out handler changes it)
CallIds == Get(params, "ids").a

\* text of "/"
Slash == <<"/">>

\* C1: updateMany with N ids issues exactly N PUT requests, the i-th to
\* resource/ids[i], all with the same body; once all are fulfilled the call
\* is resolved with data[i] = the Id of the response to request i, whatever
\* the order in which the requests completed.
C1_UpdateManyPositional ==
    op = "updateMany" =>
        /\ Len(reqs) = Len(CallIds)
        /\ \A i \in 1..Len(reqs) :
              /\ reqs[i].method = "PUT"
              /\ reqs[i].url = apiUrl \o Slash \o resource \o Slash \o JsToString(CallIds[i])
              /\ reqs[i].body = reqs[1].body
        /\ AllFulfilled(reqs) =>
              /\ outcome.state = "resolved"
              /\ DOMAIN outcome.value.o = {"data"}
              /\ Get(outcome.value, "data").k = "arr"
              /\ Len(Get(outcome.value, "data").a) = Len(CallIds)
              /\ \A i \in 1..Len(reqs) :
                    Get(outcome.value, "data").a[i] = Get(reqs[i].json, "Id")

\* two responses with different Ids have come back and the call is resolved
C1_Witness ==
    /\ op = "updateMany"
    /\ Len(reqs) = 2
    /\ AllFulfilled(reqs)
    /\ Get(reqs[1].json, "Id") # Get(reqs[2].json, "Id")
    /\ outcome.state = "resolved"

\* C2: deleteMany with N ids issues exactly N DELETE requests, one per id,
\* and when none fails it resolves with {data: ids}, the input ids in input
\* order, whatever the response bodies.
C2_DeleteManyEchoesIds ==
    op = "deleteMany" =>
        /\ Len(reqs) = Len(CallIds)
        /\ \A i \in 1..Len(reqs) :
              /\ reqs[i].method = "DELETE"
              /\ reqs[i].url = apiUrl \o Slash \o resource \o Slash \o JsToString(CallIds[i])
        /\ AllFulfilled(reqs) =>
              /\ outcome.state = "resolved"
              /\ Get(outcome.value, "data") = Arr(CallIds)

\* C3: in updateMany and deleteMany there is one request per position of ids
\* and never another (no retry); as soon as a request is rejected the call is
\* rejected, with the failure of a rejected request (of the only one, when
\* one request failed), and it is not resolved with data.
C3_FanOutFailsWhole ==
    op \in FanOutOps =>
        /\ Len(reqs) = Len(CallIds)
        /\ \A i \in 1..Len(reqs) : reqs[i].url = Member(CallIds[i])
        /\ Rejected(reqs) # {} =>
              /\ outcome.state = "rejected"
              /\ \E i \in Rejected(reqs) : outcome.value = Error(reqs[i].err)
              /\ outcome.value.k = "error"

\* one request failed, another succeeded
C3_Witness ==
    /\ op \in FanOutOps
    /\ Len(reqs) = 2
    /\ Cardinality(Rejected(reqs)) = 1
    /\ \E i \in 1..Len(reqs) : reqs[i].status = "fulfilled"
    /\ outcome.state = "rejected"

\* C4 as stated: all N requests are dispatched before any completes, and the
\* call settles only after all N requests have settled.
C4_SettlesAfterAllSettle ==
    op \in FanOutOps =>
        /\ Len(reqs) = Len(CallIds)
        /\ outcome.state \in {"resolved", "rejected"} => StillPending(reqs) = {}

\* C4 amended: all N requests are dispatched before any completes; the call
\* is pending exactly while no request has been rejected and some request is
\* pending; it resolves only when all N are fulfilled, and it rejects with
\* the first rejection, without waiting for the requests still pending.
C4_SettlesOnFirstFailureOrAllFulfilled ==
    op \in FanOutOps =>
        /\ Len(reqs) = Len(CallIds)
        /\ outcome.state = "pending" <=>
              (Rejected(reqs) = {} /\ StillPending(reqs) # {})
        /\ outcome.state = "resolved" => AllFulfilled(reqs)
        /\ (Rejected(reqs) # {} /\ StillPending(reqs) # {}) =>
              outcome.state = "rejected"

\* the call is rejected while one of its requests is still pending
C4_Witness ==
    /\ op \in FanOutOps
    /\ Len(reqs) = 2
    /\ outcome.state = "rejected"
    /\ StillPending(reqs) # {}

\* the data the caller put into params
OrigData == Get(orig, "data")

UpdateRequestOk ==
    /\ Len(reqs) = 1
    /\ reqs[1].method = "PUT"
    /\ reqs[1].url = apiUrl \o Slash \o resource \o Slash \o JsToString(Get(params, "id"))
    /\ "id" \notin DOMAIN reqs[1].body.o
    /\ \A q \in DOMAIN OrigData.o \ {"id"} : Get(reqs[1].body, q) = OrigData.o[q]

\* C5 as stated: update issues one PUT to resource/id whose body has no id
\* field, and resolves with the caller's original data minus its id field,
\* whatever the server answered.
C5_UpdateEchoesDataMinusId ==
    op = "update" =>
        /\ UpdateRequestOk
        /\ AllFulfilled(reqs) =>
              /\ outcome.state = "resolved"
              /\ Get(Get(outcome.value, "data"), "id") = Undefined
              /\ \A q \in DOMAIN OrigData.o \ {"id"} :
                    Get(Get(outcome.value, "data"), q) = OrigData.o[q]

\* C5 amended: update issues one PUT to resource/id whose body has no id
\* field, and resolves with the caller's data in which id has been replaced
\* by the value of the data's own Id field (undefined when it has none),
\* every other field unchanged, whatever the server answered.
C5_UpdateEchoesNormalizedData ==
    op = "update" =>
        /\ UpdateRequestOk
        /\ AllFulfilled(reqs) =>
              /\ outcome.state = "resolved"
              /\ DOMAIN outcome.value.o = {"data"}
              /\ DOMAIN Get(outcome.value, "data").o = DOMAIN OrigData.o \cup {"id"}
              /\ Get(Get(outcome.value, "data"), "id") = Get(OrigData, "Id")
              /\ \A q \in DOMAIN OrigData.o \ {"id"} :
                    Get(Get(outcome.value, "data"), q) = OrigData.o[q]

\* the caller's data had an id and an Id, the server answered another record
C5_Witness ==
    /\ op = "update"
    /\ {"id", "Id"} \subseteq DOMAIN OrigData.o
    /\ AllFulfilled(reqs)
    /\ Get(reqs[1].json, "Id") # Get(OrigData, "Id")
    /\ outcome.state = "resolved"

\* rec is the backend record with id set to the backend's Id
NormalizedFrom(rec, backend) ==
    /\ rec.k = "obj"
    /\ Get(rec, "id") = Get(backend, "Id")
    /\ DOMAIN rec.o \ {"id"} = DOMAIN backend.o \ {"id"}
    /\ \A q \in DOMAIN backend.o \ {"id"} : rec.o[q] = backend.o[q]

\* C6: every record returned in data by getList, getOne, getMany,
\* getManyReference and create (a single record, or each element of the
\* array in backend order) has id equal to the backend record's Id and every
\* other field equal to the backend's value.
C6_ReturnedRecordsNormalized ==
    outcome.state = "resolved" =>
        /\ op \in {"getOne", "create"} =>
              NormalizedFrom(Get(outcome.value, "data"), reqs[1].json)
        /\ op \in ListOps =>
              LET sent == Get(reqs[1].json, "value").a
                  got == Get(outcome.value, "data")
              IN /\ got.k = "arr"
                 /\ Len(got.a) = Len(sent)
                 /\ \A i \in 1..Len(sent) : NormalizedFrom(got.a[i], sent[i])

\* a list of two records came back, the first with an id that is not its Id
C6_Witness ==
    /\ op \in ListOps
    /\ outcome.state = "resolved"
    /\ Len(Get(outcome.value, "data").a) = 2
    /\ Get(Get(reqs[1].json, "value").a[1], "id") # Get(Get(reqs[1].json, "value").a[1], "Id")

\* the orderings of a sequence
Perms(a) ==
    { [i \in 1..Len(a) |-> a[f[i]]] :
        f \in { g \in [1..Len(a) -> 1..Len(a)] :
                  \A x, y \in 1..Len(a) : x # y => g[x] # g[y] } }

\* C7: the filter compiled for a multi-valued filter is the same for every
\* ordering of the same values, so getMany issues the same GET URL for every
\* ordering of the ids the caller passed.
C7_FilterOrderInvariant ==
    op = "getMany" =>
        \A a \in Perms(Get(orig, "ids").a) :
            /\ reqs[1].url =
                  Search(getOdataFilter(<< [key |-> <<"I", "d">>, value |-> Arr(a)] >>))
            /\ reqs[1].method = "GET"

\* getMany was called with ids that were not in sorted order
C7_Witness ==
    /\ op = "getMany"
    /\ Len(Get(orig, "ids").a) = 2
    /\ Get(orig, "ids").a # Get(params, "ids").a

FilterPrefix == <<"$", "f", "i", "l", "t", "e", "r", "=">>

\* the URL of getMany with this clause
GetManyUrl(clause) == apiUrl \o Slash \o resource \o <<"?">> \o FilterPrefix \o clause

\* a value as the claim has it rendered: bare when it is a number or a string
\* of digits, in single quotes otherwise
Quoted(v) ==
    IF v.k = "num" THEN NumberToString(v.n)
    ELSE IF \A i \in 1..Len(v.s) : IsDigit(v.s[i]) THEN v.s
    ELSE <<"'">> \o v.s \o <<"'">>

\* the elements between "Id in (" and ")" are these, in some order
ClauseOf(elems) ==
    <<"I", "d", " ", "i", "n", " ", "(">> \o Join(elems, <<",", " ">>) \o <<")">>

\* C8 as stated: each value that parses as a number is rendered bare, every
\* other value in single quotes; {Id: ['abc', 5]} compiles to the clause
\* Id in ('abc', 5).
C8_QuotingInInputOrder ==
    op = "getMany" =>
        /\ \E a \in Perms(Get(orig, "ids").a) :
              reqs[1].url = GetManyUrl(ClauseOf([i \in 1..Len(a) |-> Quoted(a[i])]))
        /\ Get(orig, "ids").a = <<Str(abc), Num(5)>> =>
              reqs[1].url = GetManyUrl(<<"I", "d", " ", "i", "n", " ", "(",
                                         "'", "a", "b", "c", "'", ",", " ", "5", ")">>)

\* C8 amended: each value for which isNaN is false is rendered bare, every
\* other value in single quotes, the values in sorted order; {Id: ['abc', 5]}
\* compiles to the clause Id in (5, 'abc').
C8_QuotingInSortedOrder ==
    op = "getMany" =>
        /\ \E a \in Perms(Get(orig, "ids").a) :
              reqs[1].url = GetManyUrl(ClauseOf([i \in 1..Len(a) |-> Quoted(a[i])]))
        /\ Get(orig, "ids").a = <<Str(abc), Num(5)>> =>
              reqs[1].url = GetManyUrl(<<"I", "d", " ", "i", "n", " ", "(",
                                         "5", ",", " ", "'", "a", "b", "c", "'", ")">>)

\* getMany was called with ['abc', 5]
C8_Witness ==
    /\ op = "getMany"
    /\ Get(orig, "ids").a = <<Str(abc), Num(5)>>
    /\ Len(reqs) = 1

\* C9 as stated: when a successful response lacks the expected fields (a
\* list response without value, a record without Id) the handler raises no
\* error: it resolves.
C9_MalformedResolves ==
    (op \in ListOps \cup {"getOne", "create"} /\ AllFulfilled(reqs)) =>
        outcome.state = "resolved"

\* C9 amended: a record without Id raises no error, the handler resolves and
\* the record's id is undefined; a list response without value makes getList,
\* getMany and getManyReference reject with a TypeError.
C9_MissingIdResolvesMissingValueRejects ==
    /\ (op \in {"getOne", "create"} /\ AllFulfilled(reqs)
            /\ "Id" \notin DOMAIN reqs[1].json.o) =>
          /\ outcome.state = "resolved"
          /\ "id" \in DOMAIN Get(outcome.value, "data").o
          /\ Get(outcome.value, "data").o["id"] = Undefined
    /\ (op \in ListOps /\ AllFulfilled(reqs)
            /\ "value" \in DOMAIN reqs[1].json.o) =>
          /\ outcome.state = "resolved"
          /\ \A i \in 1..Len(reqs[1].json.o["value"].a) :
                "Id" \notin DOMAIN reqs[1].json.o["value"].a[i].o =>
                    Get(outcome.value, "data").a[i].o["id"] = Undefined
    /\ (op \in ListOps /\ AllFulfilled(reqs)
            /\ "value" \notin DOMAIN reqs[1].json.o) =>
          /\ outcome.state = "rejected"
          /\ outcome.value = Error("TypeError")

\* a list handler got a response without value and has rejected
C9_Witness ==
    /\ op \in ListOps
    /\ AllFulfilled(reqs)
    /\ "value" \notin DOMAIN reqs[1].json.o
    /\ outcome.state = "rejected"

\* the requests handler name builds from the params object p
RequestsOf(name, p) ==
    CASE name = "getList" -> getListRequests(p)
      [] name = "getOne" -> getOneRequests(p)
      [] name = "getMany" -> getManyRequests(p)
      [] name = "getManyReference" -> getManyReferenceRequests(p)
      [] name = "update" -> updateRequests(p)
      [] name = "updateMany" -> updateManyRequests(p)
      [] name = "create" -> createRequests(p)
      [] name = "delete" -> deleteRequests(p)
      [] name = "deleteMany" -> deleteManyRequests(p)

\* C10: handlers are stateless across calls: every call, also one that is
\* passed the params object of an earlier call, issues the requests (method,
\* URL, body, in order) determined by the values the caller put in params.
C10_RequestsFromOriginalParams ==
    op # "none" =>
        /\ Len(reqs) = Len(RequestsOf(op, orig))
        /\ \A i \in 1..Len(reqs) : Wire(reqs[i]) = Wire(RequestsOf(op, orig)[i])

====
